---- MODULE Spec2Model ----
(***************************************************************************)
(* Model of the download coordinator of egui-meteo (src/src/app.rs):       *)
(* MeteoApp holds one SingleReport per catalog source; MeteoApp::update    *)
(* spawns one fetch unit per selected idle source and polls the channel of *)
(* every downloading source; MeteoApp::ui changes the selection flags.     *)
(* The second part models the time axis of the plots (src/src/plot.rs):    *)
(* x_grid, which returns the grid marks of a visible range.                *)
(***************************************************************************)
EXTENDS Integers, Sequences, FiniteSets, TLC

\* Size of the catalog (MeteoApp.reports).
NumSources == 3

Sources == 1..NumSources

\* Body applied to the value of e, with e evaluated once.
Bind(e, Body(_)) == CHOOSE y \in {Body(x) : x \in {e}} : TRUE

\* Option<T>: None is the empty tuple, Some(v) the one-element tuple.
None == <<>>

Some(v) == <<v>>

\* What the transport and the external report parser answer for one url:
\* either a transport failure, or the bytes of the payload together with the
\* verdict of meteo::Report's parser on the decoded text.
Responses ==
  { [transport_ok |-> FALSE, bytes |-> <<>>, parses |-> FALSE],
    [transport_ok |-> TRUE, bytes |-> <<128, 13, 10>>, parses |-> TRUE],
    [transport_ok |-> TRUE, bytes |-> <<128>>, parses |-> FALSE] }

\* encoding_rs::WINDOWS_1252 maps byte 0x80 to U+20AC and leaves ASCII alone.
Windows1252(b) == IF b = 128 THEN 8364 ELSE b

decode(bytes) == [k \in 1..Len(bytes) |-> Windows1252(bytes[k])]

\* get(url): the bytes of the payload, or a network error.
get(resp) ==
  IF resp.transport_ok
  THEN [ok |-> TRUE, bytes |-> resp.bytes, error |-> None]
  ELSE [ok |-> FALSE, bytes |-> <<>>, error |-> Some("NetworkError")]

\* body.parse::<meteo::Report>(): the report read from the text, or a parse error.
parse(body, resp) ==
  IF resp.parses
  THEN [ok |-> TRUE, report |-> Some([parsed_from |-> body]), error |-> None]
  ELSE [ok |-> FALSE, report |-> None, error |-> Some("ReportParsingError")]

\* Result<(String, meteo::Report), (Option<String>, Error)>
Ok(original, report) ==
  [ok |-> TRUE, original |-> Some(original), report |-> Some(report), error |-> None]

Err(original, error) ==
  [ok |-> FALSE, original |-> original, report |-> None, error |-> Some(error)]

download_report_keeps_no_text(resp) ==
  LET got == get(resp) IN
  IF ~got.ok THEN Err(None, got.error[1])
  ELSE LET body == decode(got.bytes)
           parsed == parse(body, resp) IN
       IF parsed.ok THEN Ok(body, parsed.report[1])
       ELSE Err(None, parsed.error[1])

download_report(resp) ==
  LET got == get(resp) IN
  IF ~got.ok THEN Err(None, got.error[1])
  ELSE LET body == decode(got.bytes)
           parsed == parse(body, resp) IN
       IF parsed.ok THEN Ok(body, parsed.report[1])
       ELSE Err(Some(body), parsed.error[1])

\* DownloadingStatus; Downloading carries the receiver, named by the index of
\* its channel among the channels created for the source.
NotDownloading == [tag |-> "NotDownloading", recv |-> 0]

Downloading(recv) == [tag |-> "Downloading", recv |-> recv]

Failed == [tag |-> "Failed", recv |-> 0]

Downloaded == [tag |-> "Downloaded", recv |-> 0]

downloading(status) == status.tag = "Downloading"

not_downloading_or_failed(status) == status.tag \in {"NotDownloading", "Failed"}

not_downloading_or_downloading(status) == status.tag \in {"NotDownloading", "Downloading"}

not_downloading(status) == status.tag = "NotDownloading"

\* std::sync::mpsc::channel(): an empty queue, one sender, one receiver.
channel == [queue |-> <<>>, sender |-> TRUE, receiver |-> TRUE]

\* Sender::send: fails, and is ignored, once the receiver is gone.
send(ch, msg) ==
  IF ch.receiver THEN [ch EXCEPT !.queue = Append(@, msg)] ELSE ch

try_recv_never_disconnected(ch) ==
  IF Len(ch.queue) > 0
  THEN [kind |-> "Ok", msg |-> Some(Head(ch.queue)), ch |-> [ch EXCEPT !.queue = Tail(@)]]
  ELSE [kind |-> "Empty", msg |-> None, ch |-> ch]

try_recv_disconnected_first(ch) ==
  IF ~ch.sender
  THEN [kind |-> "Disconnected", msg |-> None, ch |-> ch]
  ELSE IF Len(ch.queue) > 0
  THEN [kind |-> "Ok", msg |-> Some(Head(ch.queue)), ch |-> [ch EXCEPT !.queue = Tail(@)]]
  ELSE [kind |-> "Empty", msg |-> None, ch |-> ch]

\* Receiver::try_recv: a queued message first, Disconnected only when the
\* queue is empty and the sender is gone.
try_recv(ch) ==
  IF Len(ch.queue) > 0
  THEN [kind |-> "Ok", msg |-> Some(Head(ch.queue)), ch |-> [ch EXCEPT !.queue = Tail(@)]]
  ELSE IF ~ch.sender
  THEN [kind |-> "Disconnected", msg |-> None, ch |-> ch]
  ELSE [kind |-> "Empty", msg |-> None, ch |-> ch]

\* The triple (Option<String>, Option<Report>, Option<Error>) of try_fetch_report.
Output(original, report, error) ==
  [original |-> original, report |-> report, error |-> error]

drop_receiver(chs, k) == [chs EXCEPT ![k].receiver = FALSE]

\* The arms of the match on recv.try_recv() in try_fetch_report: the status
\* written back to *self and the triple returned.
on_ok_loses_text(msg) ==
  [status |-> Downloaded, out |-> Output(None, msg.report, None)]

on_ok(msg) ==
  [status |-> Downloaded, out |-> Output(msg.original, msg.report, None)]

on_err(msg) ==
  [status |-> Failed, out |-> Output(msg.original, None, msg.error)]

on_empty_forgets_receiver(recv) ==
  [status |-> NotDownloading, out |-> Output(None, None, None)]

on_empty(recv) ==
  [status |-> Downloading(recv), out |-> Output(None, None, None)]

on_disconnected_as_network ==
  [status |-> Failed, out |-> Output(None, None, Some("NetworkError"))]

on_disconnected ==
  [status |-> Failed, out |-> Output(None, None, Some("InternalError"))]

\* DownloadingStatus::try_fetch_report on the status of a source whose
\* channels are chs.  std::mem::take leaves NotDownloading in *self, which
\* only the Downloading arms overwrite; the receiver is dropped in every
\* arm that does not put it back.
try_fetch_report(status, chs) ==
  IF status.tag # "Downloading"
  THEN [status |-> NotDownloading, out |-> Output(None, None, None), channels |-> chs]
  ELSE Bind(try_recv(chs[status.recv]), LAMBDA r :
       Bind(CASE r.kind = "Ok" /\ r.msg[1].ok -> on_ok(r.msg[1])
              [] r.kind = "Ok" /\ ~r.msg[1].ok -> on_err(r.msg[1])
              [] r.kind = "Empty" -> on_empty(status.recv)
              [] r.kind = "Disconnected" -> on_disconnected, LAMBDA arm :
       [status |-> arm.status, out |-> arm.out,
        channels |-> IF arm.status.tag = "Downloading"
                     THEN [chs EXCEPT ![status.recv] = r.ch]
                     ELSE drop_receiver([chs EXCEPT ![status.recv] = r.ch], status.recv)]))

store_drops_error(report, out) ==
  LET r1 == IF out.original # None THEN [report EXCEPT !.original = out.original] ELSE report
      r2 == IF out.report # None THEN [r1 EXCEPT !.report = out.report, !.error = None] ELSE r1
  IN r2

store_drops_report(report, out) ==
  LET r1 == IF out.original # None THEN [report EXCEPT !.original = out.original] ELSE report
      r3 == IF out.error # None THEN [r1 EXCEPT !.error = out.error] ELSE r1
  IN r3

\* The three `if let Some(..)` of MeteoApp::update after try_fetch_report.
store(report, out) ==
  LET r1 == IF out.original # None THEN [report EXCEPT !.original = out.original] ELSE report
      r2 == IF out.report # None THEN [r1 EXCEPT !.report = out.report, !.error = None] ELSE r1
      r3 == IF out.error # None THEN [r2 EXCEPT !.error = out.error] ELSE r2
  IN r3

VARIABLES
  reports,    \* MeteoApp.reports: the SingleReport of every source
  channels,   \* per source, the mpsc channels created for it, in creation order
  units,      \* per source, the fetch units spawned for it; unit k owns the sender of
              \* channel k and keeps the response it got once it has finished
  surfaced,   \* per source, how many times try_fetch_report returned a text, a report or an error
  alive,      \* whether the MeteoApp value still exists (it owns reports and the receivers)
  bounds,     \* GridInput.bounds of the plot on screen, None while no plot is shown
  marks,      \* what x_grid returned for bounds, None before the call
  labels,     \* the axis labels time_formatter gave the marks, None before
  collection, \* the reports handed to the report store, in enumeration order
  stored,     \* the reports of the store once refreshed, None before
  dashboard,  \* what Dashboard::new returned, None before the call
  tokens,     \* what the lexer of the parser yields for its source, in order
  parsed,     \* what Parser::parse_primary returned, None before the call
  fetched,    \* what a call of try_fetch_report from outside update returned, None before
  copy        \* the clone of the MeteoApp, None while there is none

vars ==
  <<reports, channels, units, surfaced, alive, bounds, marks, labels,
    collection, stored, dashboard, tokens, parsed, fetched, copy>>

\* The state of the download coordinator and the state of the plot.
coordinator == <<reports, channels, units, surfaced>>

plot == <<bounds, marks, labels>>

\* The state of the report store and of the dashboard built from it.
aggregation == <<collection, stored, dashboard>>

\* The state of the expression parser.
language == <<tokens, parsed>>

\* What the callers of the coordinator other than the update tick hold.
callers == <<fetched, copy>>

\* A SingleReport as MeteoApp::new builds it from the catalog.
SingleReport(i) ==
  [name |-> i, url |-> i, selected |-> FALSE, status |-> NotDownloading,
   original |-> None, report |-> None, error |-> None]

Init ==
  /\ reports = [i \in Sources |-> SingleReport(i)]
  /\ channels = [i \in Sources |-> <<>>]
  /\ units = [i \in Sources |-> <<>>]
  /\ surfaced = [i \in Sources |-> 0]
  /\ alive = TRUE
  /\ bounds = None
  /\ marks = None
  /\ labels = None
  /\ collection = <<>>
  /\ stored = None
  /\ dashboard = None
  /\ tokens = <<>>
  /\ parsed = None
  /\ fetched = None
  /\ copy = None

spawn_unselected(report) == not_downloading(report.status)

\* The condition of the first branch of the loop body of MeteoApp::update.
spawn(report) == report.selected /\ not_downloading(report.status)

UpdateReport_polls_selected_only(report, chs, us) ==
  IF spawn(report)
  THEN [report |-> [report EXCEPT !.status = Downloading(Len(chs) + 1)],
        channels |-> Append(chs, channel),
        units |-> Append(us, [url |-> report.url, state |-> "running", response |-> None]),
        surfaced |-> 0]
  ELSE IF downloading(report.status) /\ report.selected
  THEN Bind(try_fetch_report(report.status, chs), LAMBDA f :
       [report |-> store([report EXCEPT !.status = f.status], f.out),
        channels |-> f.channels,
        units |-> us,
        surfaced |-> IF f.out = Output(None, None, None) THEN 0 ELSE 1])
  ELSE [report |-> report, channels |-> chs, units |-> us, surfaced |-> 0]

\* One iteration of the loop of MeteoApp::update, on the source whose
\* SingleReport is report, whose channels are chs and whose units are us.
UpdateReport(report, chs, us) ==
  IF spawn(report)
  THEN [report |-> [report EXCEPT !.status = Downloading(Len(chs) + 1)],
        channels |-> Append(chs, channel),
        units |-> Append(us, [url |-> report.url, state |-> "running", response |-> None]),
        surfaced |-> 0]
  ELSE IF downloading(report.status)
  THEN Bind(try_fetch_report(report.status, chs), LAMBDA f :
       [report |-> store([report EXCEPT !.status = f.status], f.out),
        channels |-> f.channels,
        units |-> us,
        surfaced |-> IF f.out = Output(None, None, None) THEN 0 ELSE 1])
  ELSE [report |-> report, channels |-> chs, units |-> us, surfaced |-> 0]

UpdateLoop_stops_at_failed(n) ==
  [k \in 1..n |->
     IF \E j \in 1..(k - 1) : reports[j].status = Failed
     THEN [report |-> reports[k], channels |-> channels[k], units |-> units[k], surfaced |-> 0]
     ELSE UpdateReport(reports[k], channels[k], units[k])]

\* The loop of MeteoApp::update over the first n sources: what each iteration
\* leaves of its source (an iteration touches nothing of the other sources).
RECURSIVE UpdateLoop(_)
UpdateLoop(n) ==
  IF n = 0 THEN <<>>
  ELSE Append(UpdateLoop(n - 1), UpdateReport(reports[n], channels[n], units[n]))

Update_joins_units ==
  /\ alive
  /\ \A i \in Sources : \A k \in 1..Len(units[i]) : units[i][k].state # "running"
  /\ \E u \in {UpdateLoop(NumSources)} :
       /\ reports' = [i \in Sources |-> u[i].report]
       /\ channels' = [i \in Sources |-> u[i].channels]
       /\ units' = [i \in Sources |-> u[i].units]
       /\ surfaced' = [i \in Sources |-> surfaced[i] + u[i].surfaced]
       /\ UNCHANGED <<alive, plot, aggregation, language, callers>>

\* MeteoApp::update, a method of the MeteoApp value.
Update ==
  /\ alive
  /\ \E u \in {UpdateLoop(NumSources)} :
       /\ reports' = [i \in Sources |-> u[i].report]
       /\ channels' = [i \in Sources |-> u[i].channels]
       /\ units' = [i \in Sources |-> u[i].units]
       /\ surfaced' = [i \in Sources |-> surfaced[i] + u[i].surfaced]
       /\ UNCHANGED <<alive, plot, aggregation, language, callers>>

\* MeteoApp::ui, right panel: ui.toggle_value flips the selection of a source.
Toggle(i) ==
  /\ alive
  /\ reports' = [reports EXCEPT ![i].selected = ~@]
  /\ UNCHANGED <<channels, units, surfaced, alive, plot, aggregation, language, callers>>

\* SingleReport::ui: closing the window of a selected source deselects it.
CloseWindow(i) ==
  /\ alive
  /\ reports[i].selected
  /\ reports' = [reports EXCEPT ![i].selected = FALSE]
  /\ UNCHANGED <<channels, units, surfaced, alive, plot, aggregation, language, callers>>

closure_unwraps_send(sent) == IF sent THEN "finished" ELSE "panicked"

\* let _ = sender.send(..): how the closure of the spawned thread ends once
\* send has returned Ok (sent) or Err (the receiver is gone).
closure_ends(sent) == "finished"

\* The body of the spawned thread: sender.send(download_report(url)), the
\* result of send ignored, then the sender is dropped with the closure.
FetchUnit(i, k, resp) ==
  /\ k \in 1..Len(units[i])
  /\ units[i][k].state = "running"
  /\ units' = [units EXCEPT ![i][k].state = closure_ends(channels[i][k].receiver),
                            ![i][k].response = Some(resp)]
  /\ channels' = [channels EXCEPT
                    ![i][k] = [send(@, download_report(resp)) EXCEPT !.sender = FALSE]]
  /\ UNCHANGED <<reports, surfaced, alive, plot, aggregation, language, callers>>

\* The spawned thread panics before sending (the unwrap in get, or a panic
\* of the transport or the parser): the sender is dropped with nothing sent.
FetchUnitPanic(i, k) ==
  /\ k \in 1..Len(units[i])
  /\ units[i][k].state = "running"
  /\ units' = [units EXCEPT ![i][k].state = "panicked"]
  /\ channels' = [channels EXCEPT ![i][k].sender = FALSE]
  /\ UNCHANGED <<reports, surfaced, alive, plot, aggregation, language, callers>>

\* A fetch unit of source i ends, one way or the other.
FetchUnitEnds(i) ==
  \E k \in 1..Len(units[i]) :
    \/ \E resp \in Responses : FetchUnit(i, k, resp)
    \/ FetchUnitPanic(i, k)

Next ==
  \/ Update
  \/ \E i \in Sources : Toggle(i)
  \/ \E i \in Sources : CloseWindow(i)
  \/ \E i \in Sources : FetchUnitEnds(i)

Spec == Init /\ [][Next]_vars

\* DownloadingStatus::try_fetch_report called on the status of source i by a
\* caller other than the update tick (the method is public), whatever the
\* status is; the caller keeps the triple.
TryFetchReport(i) ==
  /\ alive
  /\ fetched = None
  /\ \E f \in {try_fetch_report(reports[i].status, channels[i])} :
       /\ reports' = [reports EXCEPT ![i].status = f.status]
       /\ channels' = [channels EXCEPT ![i] = f.channels]
       /\ fetched' = Some(f.out)
  /\ UNCHANGED <<units, surfaced, alive, plot, aggregation, language, copy>>

CallNext ==
  \/ fetched = None /\ Update
  \/ fetched = None /\ \E i \in Sources : Toggle(i)
  \/ fetched = None /\ \E i \in Sources : CloseWindow(i)
  \/ fetched = None /\ \E i \in Sources : FetchUnitEnds(i)
  \/ \E i \in Sources : TryFetchReport(i)

\* A session up to the return of a call of try_fetch_report from outside the
\* update tick.
CallSpec == Init /\ [][CallNext]_vars

clone_keeps_status(report) == [report EXCEPT !.error = None]

\* impl Clone for SingleReport: a Downloading status is cloned as
\* NotDownloading (a receiver cannot be cloned), the error is not cloned.
clone_single_report(report) ==
  [name |-> report.name,
   url |-> report.url,
   selected |-> report.selected,
   status |-> IF downloading(report.status) THEN NotDownloading
              ELSE IF not_downloading(report.status) THEN NotDownloading
              ELSE IF report.status = Failed THEN Failed
              ELSE Downloaded,
   original |-> report.original,
   report |-> report.report,
   error |-> None]

\* #[derive(Clone)] on MeteoApp: the clone of every SingleReport.  The clone
\* has no channel and no fetch unit of its own yet.
CloneApp ==
  /\ alive
  /\ copy = None
  /\ copy' = Some([reports |-> [i \in Sources |-> clone_single_report(reports[i])],
                   channels |-> [i \in Sources |-> <<>>],
                   units |-> [i \in Sources |-> <<>>]])
  /\ UNCHANGED <<coordinator, alive, plot, aggregation, language, fetched>>

\* MeteoApp::update on the clone.
UpdateClone ==
  /\ copy # None
  /\ \E u \in {[i \in Sources |->
                  UpdateReport(copy[1].reports[i], copy[1].channels[i], copy[1].units[i])]} :
       copy' = Some([reports |-> [i \in Sources |-> u[i].report],
                     channels |-> [i \in Sources |-> u[i].channels],
                     units |-> [i \in Sources |-> u[i].units]])
  /\ UNCHANGED <<coordinator, alive, plot, aggregation, language, fetched>>

CloneNext ==
  \/ copy = None /\ Update
  \/ copy = None /\ \E i \in Sources : Toggle(i)
  \/ copy = None /\ \E i \in Sources : CloseWindow(i)
  \/ copy = None /\ \E i \in Sources : FetchUnitEnds(i)
  \/ CloneApp
  \/ UpdateClone

\* A session up to a clone of the MeteoApp and the update ticks of the clone.
CloneSpec == Init /\ [][CloneNext]_vars

\* The MeteoApp value is dropped (the viewport is closed, File > Quit): its
\* reports go, and with them the receiver every Downloading status holds.
\* The spawned threads are detached and go on.
Quit ==
  /\ alive
  /\ alive' = FALSE
  /\ channels' = [i \in Sources |->
                    IF downloading(reports[i].status)
                    THEN drop_receiver(channels[i], reports[i].status.recv)
                    ELSE channels[i]]
  /\ UNCHANGED <<reports, units, surfaced, plot, aggregation, language, callers>>

QuitNext ==
  \/ Next
  \/ Quit

\* A session that may end while fetch units are still running.
QuitSpec == Init /\ [][QuitNext]_vars

\* The update tick runs every frame and every spawned unit eventually ends.
FairSpec == Spec /\ WF_vars(Update) /\ \A i \in Sources : WF_vars(FetchUnitEnds(i))



(***************************************************************************)
(* Properties of the coordinator.                                          *)
(***************************************************************************)
terminal(status) == status.tag \in {"Downloaded", "Failed"}

\* The units of source i that have not ended yet.
RunningUnits(i) == {k \in 1..Len(units[i]) : units[i][k].state = "running"}

\* The channels of source i of which one end at least is still held.
LiveChannels(i) ==
  {k \in 1..Len(channels[i]) : channels[i][k].sender \/ channels[i][k].receiver}

RECURSIVE SumUpTo(_, _)
SumUpTo(f, n) == IF n = 0 THEN 0 ELSE f[n] + SumUpTo(f, n - 1)

\* The unit behind the receiver held by a Downloading source.
PolledUnit(i) == units[i][reports[i].status.recv]

PolledChannel(i) == channels[i][reports[i].status.recv]

\* C1: once a source is Succeeded (Downloaded) or Failed, no step (update
\* tick, select, deselect, window close, unit ending) changes its status or
\* creates another fetch unit or channel for it.
TerminalStaysTerminal ==
  [][\A i \in Sources :
       terminal(reports[i].status) =>
         /\ reports'[i].status = reports[i].status
         /\ units'[i] = units[i]
         /\ Len(channels'[i]) = Len(channels[i])]_vars

\* A failed source still selected and a succeeded source deselected: both
\* would be fetched again by a coordinator that retried.
TerminalStaysTerminalWitness ==
  /\ \E i \in Sources : reports[i].status = Failed /\ reports[i].selected
  /\ \E j \in Sources : reports[j].status = Downloaded /\ ~reports[j].selected

\* C2: for each source at most one fetch unit is outstanding, at most one
\* result was ever surfaced by a poll, and the live channels and outstanding
\* units over the whole catalog never outnumber the sources.
AtMostOneUnitAndOneResult ==
  /\ \A i \in Sources :
       /\ Cardinality(RunningUnits(i)) <= 1
       /\ surfaced[i] <= 1
  /\ SumUpTo([i \in Sources |-> Cardinality(LiveChannels(i))], NumSources) <= NumSources
  /\ SumUpTo([i \in Sources |-> Cardinality(RunningUnits(i))], NumSources) <= NumSources

\* Every source has its unit outstanding at the same time.
AtMostOneUnitAndOneResultWitness ==
  SumUpTo([i \in Sources |-> Cardinality(RunningUnits(i))], NumSources) = NumSources

\* C3: the poll of an InFlight source whose unit ended without sending moves
\* it to Failed with InternalError and stores no report.
ProducerCrashIsInternalError ==
  [][\A i \in Sources :
       (downloading(reports[i].status) /\ PolledUnit(i).state = "panicked" /\ Update) =>
         /\ reports'[i].status = Failed
         /\ reports'[i].error = Some("InternalError")
         /\ reports'[i].report = None]_vars

ProducerCrashIsInternalErrorWitness ==
  \E i \in Sources :
    /\ Len(units[i]) = 1 /\ units[i][1].state = "panicked"
    /\ reports[i].status = Failed
    /\ reports[i].error = Some("InternalError")

\* C4: under fair ticks and fetch units that end, no source stays InFlight
\* for ever: a source for which a unit was ever spawned (it became InFlight)
\* is eventually Succeeded or Failed.
InFlightEventuallyTerminal ==
  \A i \in Sources : []<>(units[i] = <<>> \/ terminal(reports[i].status))

\* Every source of the catalog went InFlight and reached a terminal status.
InFlightEventuallyTerminalWitness ==
  \A i \in Sources : Len(units[i]) = 1 /\ terminal(reports[i].status)

\* C5: the poll of an InFlight source whose channel holds a success result
\* makes it Succeeded and stores exactly the delivered text and report, with
\* no error.
SuccessStoresDeliveredPair ==
  [][\A i \in Sources :
       (/\ downloading(reports[i].status)
        /\ Len(PolledChannel(i).queue) > 0
        /\ Head(PolledChannel(i).queue).ok
        /\ Update) =>
         /\ reports'[i].status = Downloaded
         /\ reports'[i].original = Head(PolledChannel(i).queue).original
         /\ reports'[i].report = Head(PolledChannel(i).queue).report
         /\ reports'[i].error = None]_vars

\* The payload 0x80 CR LF, decoded, is stored with the report parsed from it.
SuccessStoresDeliveredPairWitness ==
  \E i \in Sources :
    /\ reports[i].status = Downloaded
    /\ reports[i].original = Some(<<8364, 13, 10>>)
    /\ reports[i].report = Some([parsed_from |-> <<8364, 13, 10>>])
    /\ units[i][1].response = Some([transport_ok |-> TRUE, bytes |-> <<128, 13, 10>>, parses |-> TRUE])

\* C6: the poll of an InFlight source whose unit has neither sent nor ended
\* leaves the source (status and receiver, text, report, error) and its
\* channel as they were.
PendingPollChangesNothing ==
  [][\A i \in Sources :
       (downloading(reports[i].status) /\ PolledUnit(i).state = "running" /\ Update) =>
         /\ reports'[i] = reports[i]
         /\ channels'[i] = channels[i]
         /\ PolledChannel(i).receiver]_vars

\* A source still InFlight on a pending unit, both ends of its channel held,
\* after ticks that brought another source to a terminal status.
PendingPollChangesNothingWitness ==
  \E i, j \in Sources :
    /\ downloading(reports[i].status) /\ PolledUnit(i).state = "running"
    /\ PolledChannel(i) = channel
    /\ terminal(reports[j].status)

\* C7: an update tick moves a source from Idle to InFlight, with a new
\* running unit and a fresh channel, exactly when the source is selected and
\* Idle at that tick; and no step takes an unselected Idle source out of Idle
\* or gives it a unit.
SpawnIffSelectedAndIdle ==
  [][\A i \in Sources :
       /\ (reports[i].selected /\ not_downloading(reports[i].status) /\ Update) =>
            /\ reports'[i].status = Downloading(Len(channels'[i]))
            /\ channels'[i] = Append(channels[i], channel)
            /\ units'[i] = Append(units[i], [url |-> reports[i].url,
                                            state |-> "running", response |-> None])
       /\ (\/ not_downloading(reports[i].status) /\ downloading(reports'[i].status)
           \/ Len(units'[i]) > Len(units[i])
           \/ Len(channels'[i]) > Len(channels[i])) =>
            reports[i].selected /\ not_downloading(reports[i].status)
       /\ (~reports[i].selected /\ not_downloading(reports[i].status)) =>
            /\ not_downloading(reports'[i].status)
            /\ units'[i] = units[i]
            /\ channels'[i] = channels[i]]_vars

\* One source was fetched while another, unselected, is Idle without a unit.
SpawnIffSelectedAndIdleWitness ==
  \E i, j \in Sources :
    /\ downloading(reports[i].status) /\ Len(units[i]) = 1
    /\ reports[j] = SingleReport(j) /\ units[j] = <<>> /\ channels[j] = <<>>
    /\ \E k \in Sources : terminal(reports[k].status)

FailedKeepsTextOnlyAfterDecoding ==
  \A i \in Sources :
    (reports[i].status = Failed /\ Len(units[i]) = 1) =>
      LET unit == units[i][1] IN
      /\ unit.state \in {"finished", "panicked"}
      /\ unit.state = "panicked" => reports[i].original = None
      /\ (unit.state = "finished" /\ ~unit.response[1].transport_ok) =>
           reports[i].original = None
      /\ (unit.state = "finished" /\ unit.response[1].transport_ok) =>
           /\ ~unit.response[1].parses
           /\ reports[i].original = Some(decode(unit.response[1].bytes))

\* The unparsable payload 0x80 is kept as U+20AC; a transport failure keeps nothing.
FailedKeepsTextOnlyAfterDecodingWitness ==
  \E i, j \in Sources :
    /\ reports[i].status = Failed /\ reports[i].error = Some("ReportParsingError")
    /\ reports[i].original = Some(<<8364>>)
    /\ reports[j].status = Failed /\ reports[j].error = Some("NetworkError")
    /\ reports[j].original = None

\* C10: sources 1 (A) and 2 (B) selected, every other source (C) not, all
\* Idle: the first tick puts A and B InFlight; once A's unit has sent a valid
\* report and B's a transport error, the second tick leaves A Succeeded with
\* its report, B Failed with an error and no text, and C Idle.
ScenarioBeforeFirstTick ==
  /\ \A i \in Sources :
       /\ reports[i] = [SingleReport(i) EXCEPT !.selected = (i \in {1, 2})]
       /\ units[i] = <<>>

ScenarioBetweenTicks ==
  /\ \A i \in {1, 2} : downloading(reports[i].status) /\ Len(units[i]) = 1
  /\ \A i \in Sources \ {1, 2} : reports[i] = SingleReport(i) /\ units[i] = <<>>

ScenarioBeforeSecondTick ==
  /\ ScenarioBetweenTicks
  /\ \A i \in {1, 2} : units[i][1].state = "finished"
  /\ units[1][1].response[1].transport_ok /\ units[1][1].response[1].parses
  /\ ~units[2][1].response[1].transport_ok

ScenarioAfterSecondTick ==
  /\ reports[1].status = Downloaded
  /\ reports[1].report = Some([parsed_from |-> decode(units[1][1].response[1].bytes)])
  /\ reports[2].status = Failed
  /\ reports[2].error = Some("NetworkError")
  /\ reports[2].original = None
  /\ \A i \in Sources \ {1, 2} : reports[i] = SingleReport(i) /\ units[i] = <<>>

ScenarioTwoTicks ==
  [][/\ (ScenarioBeforeFirstTick /\ Update) => ScenarioBetweenTicks'
     /\ (ScenarioBeforeSecondTick /\ Update) => ScenarioAfterSecondTick']_vars

ScenarioTwoTicksWitness ==
  /\ ScenarioAfterSecondTick
  /\ reports[1].selected /\ reports[2].selected
  /\ \A i \in Sources : surfaced[i] = (IF i \in {1, 2} THEN 1 ELSE 0)

\* What source i holds once terminal, computed from the end of its own polled
\* unit alone: the result the unit sent, or InternalError if it sent nothing.
OwnOutcome(unit) ==
  IF unit.state = "panicked"
  THEN [status |-> Failed, original |-> None, report |-> None, error |-> Some("InternalError")]
  ELSE LET r == download_report(unit.response[1])
       IN [status |-> IF r.ok THEN Downloaded ELSE Failed,
           original |-> r.original, report |-> r.report, error |-> r.error]

Stored(report) ==
  [status |-> report.status, original |-> report.original,
   report |-> report.report, error |-> report.error]

\* C11: whatever the other sources are doing, the tick that polls an InFlight
\* source whose unit has ended makes it Succeeded or Failed, and the status,
\* text, report and error of a terminal source are those of its own unit's
\* outcome; a Failed or InFlight source delays no other source.
OwnOutcomeOnly ==
  [][\A i \in Sources :
       /\ (/\ downloading(reports[i].status)
           /\ PolledUnit(i).state # "running"
           /\ Update) => terminal(reports'[i].status)
       /\ (terminal(reports[i].status) /\ Len(units[i]) = 1) =>
            Stored(reports[i]) = OwnOutcome(units[i][1])]_vars

\* One source Succeeded and another Failed on different outcomes while a
\* third is still InFlight with its unit running.
OwnOutcomeOnlyWitness ==
  \E i, j, k \in Sources :
    /\ reports[i].status = Failed /\ reports[i].error = Some("NetworkError")
    /\ reports[j].status = Downloaded /\ i < j
    /\ downloading(reports[k].status) /\ PolledUnit(k).state = "running"

\* C12 as claimed: the tick that polls a deselected InFlight source leaves
\* its stored report, original text and error as they were (the result of
\* its unit is discarded).
DeselectedResultDiscarded ==
  [][\A i \in Sources :
       (downloading(reports[i].status) /\ ~reports[i].selected /\ Update) =>
         /\ reports'[i].report = reports[i].report
         /\ reports'[i].original = reports[i].original
         /\ reports'[i].error = reports[i].error]_vars

\* C12, amended: deselecting a source leaves its status, unit and channel as
\* they were (the unit is not cancelled), and the tick that polls a
\* deselected InFlight source whose unit has ended stores the unit's outcome
\* and makes the source Succeeded or Failed, as for a selected source.
DeselectedResultStored ==
  [][\A i \in Sources :
       /\ (reports[i].selected /\ ~reports'[i].selected) =>
            /\ reports'[i].status = reports[i].status
            /\ units'[i] = units[i]
            /\ channels'[i] = channels[i]
       /\ (/\ downloading(reports[i].status)
           /\ ~reports[i].selected
           /\ PolledUnit(i).state # "running"
           /\ Update) => Stored(reports'[i]) = OwnOutcome(PolledUnit(i))]_vars

\* A deselected source whose unit's result waits in the channel, and a
\* deselected source that holds the report its unit sent.
DeselectedResultStoredWitness ==
  \E i, j \in Sources :
    /\ ~reports[i].selected /\ downloading(reports[i].status)
    /\ Len(PolledChannel(i).queue) = 1
    /\ ~reports[j].selected /\ reports[j].status = Downloaded
    /\ reports[j].report # None /\ reports[j].original # None

\* C13: a fetch unit that reaches its send after the receiver of its channel
\* was dropped ends normally: nothing is queued, the unit does not panic, and
\* no report, no other unit and no other channel changes.
SendToDroppedReceiverIsSilent ==
  [][\A i \in Sources : \A k \in 1..Len(units[i]) :
       (/\ units[i][k].state = "running"
        /\ ~channels[i][k].receiver
        /\ \E resp \in Responses : FetchUnit(i, k, resp)) =>
         /\ units'[i][k].state = "finished"
         /\ channels'[i][k].queue = channels[i][k].queue
         /\ reports' = reports
         /\ \A j \in Sources \ {i} : units'[j] = units[j] /\ channels'[j] = channels[j]]_vars

\* The app was dropped with two fetches in flight; one unit has since got its
\* response and returned with nothing queued, the other is still running.
SendToDroppedReceiverIsSilentWitness ==
  /\ ~alive
  /\ \E i, j \in Sources :
       /\ downloading(reports[i].status) /\ downloading(reports[j].status)
       /\ PolledUnit(i).state = "finished" /\ PolledUnit(i).response # None
       /\ ~PolledChannel(i).receiver /\ PolledChannel(i).queue = <<>>
       /\ PolledUnit(j).state = "running"

\* C14: the update tick can be taken in every reachable state of a running
\* session, whatever the fetch units are doing, and it waits for no unit: it
\* leaves every existing unit as it was, and a unit it spawns is still
\* running, with nothing sent, when the tick returns.
TickNeverWaits ==
  /\ [](ENABLED Update)
  /\ [][Update =>
          \A i \in Sources : \A k \in 1..Len(units'[i]) :
            IF k <= Len(units[i])
            THEN units'[i][k] = units[i][k]
            ELSE units'[i][k].state = "running" /\ channels'[i][k].queue = <<>>]_vars

\* Every source is InFlight: one unit has produced a
\* result that waits in its channel, one has ended without a result, the
\* others are still running.
TickNeverWaitsWitness ==
  /\ \A i \in Sources : downloading(reports[i].status)
  /\ \E i, j, k \in Sources :
       /\ Len(PolledChannel(i).queue) = 1
       /\ PolledUnit(j).state = "panicked"
       /\ PolledUnit(k).state = "running"

\* Whether text holds a carriage return followed by a line feed.
has_crlf(text) ==
  \E p \in 1..(Len(text) - 1) : text[p] = 13 /\ text[p + 1] = 10

\* C15: neither the text a source stores as its original text nor the text
\* its report was parsed from holds a CRLF sequence.
NoCRLFReachesParser ==
  \A i \in Sources :
    /\ reports[i].original # None => ~has_crlf(reports[i].original[1])
    /\ reports[i].report # None => ~has_crlf(reports[i].report[1].parsed_from)

(***************************************************************************)
(* The time axis of the plots (src/src/plot.rs, src/src/lib.rs).           *)
(* A position on the axis is a unix timestamp in whole seconds, written    *)
(* <<d, s>> for d * 86400 + s with s in 0..86399; an OffsetDateTime is the *)
(* UTC calendar record of its fields.                                      *)
(***************************************************************************)
Before(a, b) == a[1] < b[1] \/ (a[1] = b[1] /\ a[2] < b[2])

is_leap_year(year) == year % 4 = 0 /\ (year % 100 # 0 \/ year % 400 = 0)

days_in_month(year, month) ==
  IF month = 2 THEN (IF is_leap_year(year) THEN 29 ELSE 28)
  ELSE IF month \in {4, 6, 9, 11} THEN 30 ELSE 31

\* The number of the day year-month-day, counted from 1970-01-01.
days_from_civil(year, month, day) ==
  LET y == IF month <= 2 THEN year - 1 ELSE year
      era == y \div 400
      yoe == y - era * 400
      mp == (month + 9) % 12
      doy == (153 * mp + 2) \div 5 + day - 1
      doe == yoe * 365 + yoe \div 4 - yoe \div 100 + doy
  IN era * 146097 + doe - 719468

\* The calendar date of day number z.
civil_from_days(z) ==
  LET z1 == z + 719468
      era == z1 \div 146097
      doe == z1 - era * 146097
      yoe == (doe - doe \div 1460 + doe \div 36524 - doe \div 146096) \div 365
      doy == doe - (365 * yoe + yoe \div 4 - yoe \div 100)
      mp == (5 * doy + 2) \div 153
      month == IF mp < 10 THEN mp + 3 ELSE mp - 9
  IN [year |-> yoe + era * 400 + (IF month <= 2 THEN 1 ELSE 0),
      month |-> month,
      day |-> doy - (153 * mp + 2) \div 5 + 1]

\* OffsetDateTime::new_utc(Date, Time).
new_utc(date, hour, minute, second) ==
  [year |-> date.year, month |-> date.month, day |-> date.day,
   hour |-> hour, minute |-> minute, second |-> second]

\* The least and the greatest timestamp of an OffsetDateTime:
\* -9999-01-01 00:00:00 and 9999-12-31 23:59:59.
MinTimestamp == <<-4371587, 0>>

MaxTimestamp == <<2932896, 86399>>

\* OffsetDateTime::from_unix_timestamp: Err outside the representable years.
from_unix_timestamp(t) ==
  IF Before(t, MinTimestamp) \/ Before(MaxTimestamp, t)
  THEN None
  ELSE Some(new_utc(civil_from_days(t[1]), t[2] \div 3600, (t[2] % 3600) \div 60, t[2] % 60))

\* OffsetDateTime::unix_timestamp.
unix_timestamp(date) ==
  <<days_from_civil(date.year, date.month, date.day),
    date.hour * 3600 + date.minute * 60 + date.second>>

\* lib.rs: the axis value of a date, and the date of an axis value.
date_to_chart(date) == unix_timestamp(date)

date_from_chart(axis) == from_unix_timestamp(axis)

unwrap_or(option, default) == IF option = None THEN default ELSE option[1]

\* Date::from_ordinal_date(year, 1), Err outside the representable years.
from_ordinal_date(year) ==
  IF year < -9999 \/ year > 9999 THEN None
  ELSE Some([year |-> year, month |-> 1, day |-> 1])

\* OffsetDateTime::replace_month, replace_day, replace_hour, replace_minute:
\* Err when the component is out of range or the day does not exist.
replace_month(date, month) ==
  IF month \in 1..12 /\ date.day <= days_in_month(date.year, month)
  THEN Some([date EXCEPT !.month = month]) ELSE None

replace_day(date, day) ==
  IF day >= 1 /\ day <= days_in_month(date.year, date.month)
  THEN Some([date EXCEPT !.day = day]) ELSE None

replace_hour(date, hour) ==
  IF hour \in 0..23 THEN Some([date EXCEPT !.hour = hour]) ELSE None

replace_minute(date, minute) ==
  IF minute \in 0..59 THEN Some([date EXCEPT !.minute = minute]) ELSE None

\* end - start as a Duration, and Duration::whole_days, whole_hours (both
\* round toward zero).  The duration is kept as whole days (floor) plus
\* seconds of the last day.
duration_between(start, end) ==
  LET a == unix_timestamp(start)
      b == unix_timestamp(end)
  IN IF b[2] >= a[2] THEN <<b[1] - a[1], b[2] - a[2]>>
     ELSE <<b[1] - a[1] - 1, b[2] - a[2] + 86400>>

whole_days(duration) ==
  IF duration[1] >= 0 \/ duration[2] = 0 THEN duration[1] ELSE duration[1] + 1

whole_hours(duration) ==
  LET floor == duration[1] * 24 + duration[2] \div 3600
  IN IF duration[1] >= 0 \/ duration[2] % 3600 = 0 THEN floor ELSE floor + 1

\* The step sizes of x_grid, in seconds: date_to_chart(null_time + Duration).
year_step_size == 365 * 86400

month_step_size == 30 * 86400

day_step_size == 86400

hour_step_size == 3600

minute_step_size == 60

\* What a stretch of the body of x_grid leaves: the marks pushed, in order,
\* and whether an unwrap panicked (nothing runs after a panic).
Pushed(ms) == [marks |-> ms, panic |-> FALSE]

Panicked == [marks |-> <<>>, panic |-> TRUE]

Then_newest_first(a, b) ==
  IF a.panic THEN a ELSE [marks |-> b.marks \o a.marks, panic |-> b.panic]

Then(a, b) ==
  IF a.panic THEN a ELSE [marks |-> a.marks \o b.marks, panic |-> b.panic]

contains_end_inclusive(c, date) ==
  /\ ~Before(unix_timestamp(date), c.t0)
  /\ ~Before(c.t1, unix_timestamp(date))

\* (start..end).contains(&date).
contains(c, date) ==
  /\ ~Before(unix_timestamp(date), c.t0)
  /\ Before(unix_timestamp(date), c.t1)

\* if (start..end).contains(&date) && cond { marks.push(GridMark {..}) }
push_if(c, date, cond, step_size) ==
  IF contains(c, date) /\ cond
  THEN Pushed(<<[value |-> date_to_chart(date), step_size |-> step_size]>>)
  ELSE Pushed(<<>>)

\* for minute in s..=e, on the date of the hour.
minute_body(c, date, minute) ==
  LET replaced == replace_minute(date, minute)
  IN IF replaced = None THEN Panicked
     ELSE push_if(c, replaced[1], TRUE, minute_step_size)

RECURSIVE minute_loop(_, _, _, _)
minute_loop(c, date, s, e) ==
  IF s > e THEN Pushed(<<>>)
  ELSE IF s = e THEN minute_body(c, date, s)
  ELSE Then(minute_loop(c, date, s, (s + e) \div 2),
            minute_loop(c, date, (s + e) \div 2 + 1, e))

hour_body_minutes_within_three_hours(c, day_date, hour) ==
  LET replaced == replace_hour(day_date, hour)
      date == replaced[1]
      at_start == /\ date.year = c.start.year /\ date.month = c.start.month
                  /\ date.day = c.start.day /\ hour = c.start.hour
      at_end == /\ date.year = c.end.year /\ date.month = c.end.month
                /\ date.day = c.end.day /\ hour = c.end.hour
  IN IF replaced = None THEN Panicked
     ELSE Then(IF c.whole_hours > 25 THEN push_if(c, date, hour % 6 = 0, hour_step_size * 6)
               ELSE Pushed(<<>>),
          Then(IF c.whole_hours > 15 THEN push_if(c, date, hour % 3 = 0, hour_step_size * 3)
               ELSE Pushed(<<>>),
               IF c.whole_hours > 3 THEN push_if(c, date, TRUE, hour_step_size)
               ELSE minute_loop(c, date,
                                IF at_start THEN c.start.hour ELSE 0,
                                IF at_end THEN c.end.hour ELSE 59)))

hour_body_three_hours_as_six(c, day_date, hour) ==
  LET replaced == replace_hour(day_date, hour)
      date == replaced[1]
      at_start == /\ date.year = c.start.year /\ date.month = c.start.month
                  /\ date.day = c.start.day /\ hour = c.start.hour
      at_end == /\ date.year = c.end.year /\ date.month = c.end.month
                /\ date.day = c.end.day /\ hour = c.end.hour
  IN IF replaced = None THEN Panicked
     ELSE Then(IF c.whole_hours > 25 THEN push_if(c, date, hour % 6 = 0, hour_step_size * 6)
               ELSE Pushed(<<>>),
          Then(IF c.whole_hours > 15 THEN push_if(c, date, hour % 3 = 0, hour_step_size * 6)
               ELSE Pushed(<<>>),
               IF c.whole_hours > 2 THEN push_if(c, date, TRUE, hour_step_size)
               ELSE minute_loop(c, date,
                                IF at_start THEN c.start.hour ELSE 0,
                                IF at_end THEN c.end.hour ELSE 59)))

\* for hour in s..=e, on the date of the day.
hour_body(c, day_date, hour) ==
  LET replaced == replace_hour(day_date, hour)
      date == replaced[1]
      at_start == /\ date.year = c.start.year /\ date.month = c.start.month
                  /\ date.day = c.start.day /\ hour = c.start.hour
      at_end == /\ date.year = c.end.year /\ date.month = c.end.month
                /\ date.day = c.end.day /\ hour = c.end.hour
  IN IF replaced = None THEN Panicked
     ELSE Then(IF c.whole_hours > 25 THEN push_if(c, date, hour % 6 = 0, hour_step_size * 6)
               ELSE Pushed(<<>>),
          Then(IF c.whole_hours > 15 THEN push_if(c, date, hour % 3 = 0, hour_step_size * 3)
               ELSE Pushed(<<>>),
               IF c.whole_hours > 2 THEN push_if(c, date, TRUE, hour_step_size)
               ELSE minute_loop(c, date,
                                IF at_start THEN c.start.hour ELSE 0,
                                IF at_end THEN c.end.hour ELSE 59)))

RECURSIVE hour_loop(_, _, _, _)
hour_loop(c, date, s, e) ==
  IF s > e THEN Pushed(<<>>)
  ELSE IF s = e THEN hour_body(c, date, s)
  ELSE Then(hour_loop(c, date, s, (s + e) \div 2),
            hour_loop(c, date, (s + e) \div 2 + 1, e))

day_body_unwraps(c, month_date, day) ==
  LET replaced == replace_day(month_date, day)
      date == replaced[1]
      at_start == /\ date.year = c.start.year /\ date.month = c.start.month
                  /\ day = c.start.day
      at_end == /\ date.year = c.end.year /\ date.month = c.end.month
                /\ day = c.end.day
  IN IF replaced = None THEN Panicked
     ELSE Then(IF c.whole_days > 90 THEN push_if(c, date, day % 24 = 0, day_step_size * 24)
               ELSE Pushed(<<>>),
          Then(IF c.whole_days > 60 THEN push_if(c, date, day % 12 = 0, day_step_size * 12)
               ELSE Pushed(<<>>),
          Then(IF c.whole_days > 30 THEN push_if(c, date, day % 6 = 0, day_step_size * 6)
               ELSE Pushed(<<>>),
          Then(IF c.whole_days > 15 THEN push_if(c, date, day % 3 = 0, day_step_size * 3)
               ELSE Pushed(<<>>),
               IF c.whole_days > 2 THEN push_if(c, date, TRUE, day_step_size)
               ELSE hour_loop(c, date,
                              IF at_start THEN c.start.hour ELSE 0,
                              IF at_end THEN c.end.hour ELSE 23)))))

\* for day in s..=e, on the date of the month: a day the month does not have
\* is skipped (Err(_) => continue).
day_body(c, month_date, day) ==
  LET replaced == replace_day(month_date, day)
      date == replaced[1]
      at_start == /\ date.year = c.start.year /\ date.month = c.start.month
                  /\ day = c.start.day
      at_end == /\ date.year = c.end.year /\ date.month = c.end.month
                /\ day = c.end.day
  IN IF replaced = None THEN Pushed(<<>>)
     ELSE Then(IF c.whole_days > 90 THEN push_if(c, date, day % 24 = 0, day_step_size * 24)
               ELSE Pushed(<<>>),
          Then(IF c.whole_days > 60 THEN push_if(c, date, day % 12 = 0, day_step_size * 12)
               ELSE Pushed(<<>>),
          Then(IF c.whole_days > 30 THEN push_if(c, date, day % 6 = 0, day_step_size * 6)
               ELSE Pushed(<<>>),
          Then(IF c.whole_days > 15 THEN push_if(c, date, day % 3 = 0, day_step_size * 3)
               ELSE Pushed(<<>>),
               IF c.whole_days > 2 THEN push_if(c, date, TRUE, day_step_size)
               ELSE hour_loop(c, date,
                              IF at_start THEN c.start.hour ELSE 0,
                              IF at_end THEN c.end.hour ELSE 23)))))

RECURSIVE day_loop(_, _, _, _)
day_loop(c, date, s, e) ==
  IF s > e THEN Pushed(<<>>)
  ELSE IF s = e THEN day_body(c, date, s)
  ELSE Then(day_loop(c, date, s, (s + e) \div 2),
            day_loop(c, date, (s + e) \div 2 + 1, e))

month_body_skips_new_year(c, year_date, month) ==
  LET replaced == replace_month(year_date, month)
      date == replaced[1]
      at_start == date.year = c.start.year /\ month = c.start.month
      at_end == date.year = c.end.year /\ month = c.end.month
  IN IF replaced = None THEN Panicked
     ELSE IF c.whole_days > 30 * 3 THEN push_if(c, date, month # 1, month_step_size)
     ELSE day_loop(c, date,
                   IF at_start THEN c.start.day ELSE 1,
                   IF at_end THEN c.end.day ELSE 31)

\* for month in s..=e, on the date of the year.
month_body(c, year_date, month) ==
  LET replaced == replace_month(year_date, month)
      date == replaced[1]
      at_start == date.year = c.start.year /\ month = c.start.month
      at_end == date.year = c.end.year /\ month = c.end.month
  IN IF replaced = None THEN Panicked
     ELSE IF c.whole_days > 30 * 3 THEN push_if(c, date, TRUE, month_step_size)
     ELSE day_loop(c, date,
                   IF at_start THEN c.start.day ELSE 1,
                   IF at_end THEN c.end.day ELSE 31)

RECURSIVE month_loop(_, _, _, _)
month_loop(c, date, s, e) ==
  IF s > e THEN Pushed(<<>>)
  ELSE IF s = e THEN month_body(c, date, s)
  ELSE Then(month_loop(c, date, s, (s + e) \div 2),
            month_loop(c, date, (s + e) \div 2 + 1, e))

year_body_every_fifth_year(c, year) ==
  LET ordinal == from_ordinal_date(year)
      date == new_utc(ordinal[1], 0, 0, 0)
  IN IF ordinal = None THEN Panicked
     ELSE IF c.whole_days > 365 * 20 THEN push_if(c, date, year % 5 = 0, year_step_size * 10)
     ELSE IF c.whole_days > 365 * 3 THEN push_if(c, date, TRUE, year_step_size)
     ELSE month_loop(c, date,
                     IF year = c.start.year THEN c.start.month ELSE 1,
                     IF year = c.end.year THEN c.end.month ELSE 12)

year_body_keeps_time_of_start(c, year) ==
  LET ordinal == from_ordinal_date(year)
      date == new_utc(ordinal[1], c.start.hour, c.start.minute, c.start.second)
  IN IF ordinal = None THEN Panicked
     ELSE IF c.whole_days > 365 * 20 THEN push_if(c, date, year % 10 = 0, year_step_size * 10)
     ELSE IF c.whole_days > 365 * 3 THEN push_if(c, date, TRUE, year_step_size)
     ELSE month_loop(c, date,
                     IF year = c.start.year THEN c.start.month ELSE 1,
                     IF year = c.end.year THEN c.end.month ELSE 12)

\* for year in start.year()..=end.year().
year_body(c, year) ==
  LET ordinal == from_ordinal_date(year)
      date == new_utc(ordinal[1], 0, 0, 0)
  IN IF ordinal = None THEN Panicked
     ELSE IF c.whole_days > 365 * 20 THEN push_if(c, date, year % 10 = 0, year_step_size * 10)
     ELSE IF c.whole_days > 365 * 3 THEN push_if(c, date, TRUE, year_step_size)
     ELSE month_loop(c, date,
                     IF year = c.start.year THEN c.start.month ELSE 1,
                     IF year = c.end.year THEN c.end.month ELSE 12)

RECURSIVE year_loop(_, _, _)
year_loop(c, s, e) ==
  IF s > e THEN Pushed(<<>>)
  ELSE IF s = e THEN year_body(c, s)
  ELSE Then(year_loop(c, s, (s + e) \div 2),
            year_loop(c, (s + e) \div 2 + 1, e))

\* The dates and the duration x_grid works with for the bounds (t0, t1) of
\* the visible range: a bound that is no OffsetDateTime is replaced by
\* min_time or max_time.
window(input) ==
  LET start == unwrap_or(date_from_chart(input[1]), from_unix_timestamp(MinTimestamp)[1])
      end == unwrap_or(date_from_chart(input[2]), from_unix_timestamp(MaxTimestamp)[1])
      duration == duration_between(start, end)
  IN [start |-> start, end |-> end,
      t0 |-> unix_timestamp(start), t1 |-> unix_timestamp(end),
      whole_days |-> whole_days(duration), whole_hours |-> whole_hours(duration)]

\* x_grid: the marks of the visible range, or a panic.
x_grid(input) ==
  Bind(window(input), LAMBDA c : year_loop(c, c.start.year, c.end.year))

\* The visible ranges the plot is opened on.  Each starts at one of a few
\* instants, moved later by up to MaxShift strides of 1 day 1 hour 1 minute
\* 1 second, and extends over one of the lengths below: the lengths on each
\* side of every threshold of x_grid, zero and negative lengths (inverted
\* ranges), and lengths that end beyond the last representable instant.
MaxShift == 1

GridBases ==
  { <<18291, 82710>>,    \* 2020-01-30 22:58:30, before 29 February
    <<18746, 0>>,        \* 2021-04-29 00:00:00, April has 30 days
    <<10956, 82800>>,    \* 1999-12-31 23:00:00, before a decade
    <<19415, 36900>>,    \* 2023-02-27 10:15:00, February has 28 days
    <<-1, 43200>>,       \* 1969-12-31 12:00:00, before the epoch
    <<-5000000, 0>> }    \* before min_time

GridLengths ==
  { <<0, 0>>, <<0, 60>>, <<0, 3540>>, <<0, 7200>>, <<0, 10799>>, <<0, 10800>>,
    <<0, 57600>>, <<1, 7200>>, <<2, 0>>, <<2, 86399>>, <<3, 0>>, <<16, 0>>,
    <<31, 0>>, <<61, 0>>, <<90, 0>>, <<90, 86399>>, <<91, 0>>, <<365, 0>>,
    <<1095, 0>>, <<1096, 0>>, <<1826, 0>>, <<1827, 0>>, <<7300, 0>>, <<7301, 0>>,
    <<11000, 0>>, <<9000000, 0>>,
    <<-1, 82800>>, <<-40, 0>>, <<-2000, 0>> }

Plus(t, length) ==
  <<t[1] + length[1] + (t[2] + length[2]) \div 86400, (t[2] + length[2]) % 86400>>

GridInputs ==
  { <<Plus(base, <<k, k * 3661>>), Plus(Plus(base, <<k, k * 3661>>), length)>> :
      base \in GridBases, k \in 0..MaxShift, length \in GridLengths }

\* A plot is on screen with some visible range and egui has not yet asked
\* for its grid marks; the coordinator is as MeteoApp::new leaves it.
GridInit ==
  /\ reports = [i \in Sources |-> SingleReport(i)]
  /\ channels = [i \in Sources |-> <<>>]
  /\ units = [i \in Sources |-> <<>>]
  /\ surfaced = [i \in Sources |-> 0]
  /\ alive = TRUE
  /\ bounds \in {Some(input) : input \in GridInputs}
  /\ marks = None
  /\ labels = None
  /\ collection = <<>>
  /\ stored = None
  /\ dashboard = None
  /\ tokens = <<>>
  /\ parsed = None
  /\ fetched = None
  /\ copy = None

\* egui calls the x_grid_spacer of the plot with the visible range.
XGrid ==
  /\ bounds # None
  /\ marks = None
  /\ marks' = Some(x_grid(bounds[1]))
  /\ UNCHANGED <<coordinator, alive, bounds, labels, aggregation, language, callers>>

\* The duration of a step size in seconds, as the instant it is from the epoch.
as_instant(step_size) == <<step_size \div 86400, step_size % 86400>>

time_format_of_app(step_size) ==
  LET step == date_from_chart(as_instant(step_size))
  IN IF step = None THEN [panic |-> TRUE, format |-> <<>>]
     ELSE LET days == whole_days(duration_between(from_unix_timestamp(<<0, 0>>)[1], step[1]))
          IN [panic |-> FALSE,
              format |-> IF days > 365 * 3 THEN <<"year">>
                         ELSE IF days > 30 * 3 THEN <<"year", "month">>
                         ELSE IF days > 3 THEN <<"year", "month", "day">>
                         ELSE <<"year", "month", "day", "hour", "minute">>]

\* time_formatter: the format description chosen for a step size, as the
\* components it prints, or the panic of date_from_chart(..).unwrap().
time_format(step_size) ==
  LET step == date_from_chart(as_instant(step_size))
  IN IF step = None THEN [panic |-> TRUE, format |-> <<>>]
     ELSE LET days == whole_days(duration_between(from_unix_timestamp(<<0, 0>>)[1], step[1]))
          IN [panic |-> FALSE,
              format |-> IF days > 364 THEN <<"year">>
                         ELSE IF days > 29 THEN <<"year", "month">>
                         ELSE IF days > 0 THEN <<"year", "month", "day">>
                         ELSE <<"year", "month", "day", "hour", "minute">>]

\* time_formatter: the label of a mark, the components of its date the
\* format prints.
time_formatter(mark) ==
  LET chosen == time_format(mark.step_size)
      date == date_from_chart(mark.value)
  IN IF chosen.panic \/ date = None THEN [panic |-> TRUE, format |-> <<>>, label |-> <<>>]
     ELSE [panic |-> FALSE,
           format |-> chosen.format,
           label |-> [k \in 1..Len(chosen.format) |-> date[1][chosen.format[k]]]]

\* egui asks time_formatter for the label of every mark x_grid returned.
FormatMarks ==
  /\ marks # None
  /\ ~marks[1].panic
  /\ labels = None
  /\ labels' = Some([k \in 1..Len(marks[1].marks) |-> time_formatter(marks[1].marks[k])])
  /\ UNCHANGED <<coordinator, alive, bounds, marks, aggregation, language, callers>>

GridNext ==
  \/ XGrid
  \/ FormatMarks

GridSpec == GridInit /\ [][GridNext]_vars

\* The range x_grid worked on, and the marks it returned.
Window == window(bounds[1])

Marks == marks[1].marks

\* C16: when both bounds of the visible range are representable instants and
\* t0 < t1, every mark x_grid returns lies at a position p with
\* t0 <= p < t1.
MarksInsideRange ==
  (/\ marks # None
   /\ date_from_chart(bounds[1][1]) # None
   /\ date_from_chart(bounds[1][2]) # None
   /\ Before(bounds[1][1], bounds[1][2])) =>
    \A k \in 1..Len(Marks) :
      /\ ~Before(Marks[k].value, bounds[1][1])
      /\ Before(Marks[k].value, bounds[1][2])

\* A range of whole days from midnight to midnight: the first day mark lies
\* on t0 and the last one day before t1.
MarksInsideRangeWitness ==
  /\ marks # None
  /\ Len(Marks) > 1
  /\ bounds[1][1][2] = 0 /\ bounds[1][2][2] = 0
  /\ Marks[1] = [value |-> bounds[1][1], step_size |-> day_step_size]
  /\ Marks[Len(Marks)] = [value |-> <<bounds[1][2][1] - 1, 0>>, step_size |-> day_step_size]

\* The visible range extends over exactly five calendar years.
FiveCalendarYears == Window.end = [Window.start EXCEPT !.year = @ + 5]

\* C18: a mark of month level or finer is returned only for a duration of at
\* most 3 * 365 whole days, a day-level mark (spacing 1 to 12 days) only for at
\* most 90 whole days, an hour-level mark only for at most 2 whole days, a
\* minute-level mark only for at most 2 whole hours; a range of exactly five
\* calendar years gets no day-, hour- or minute-level mark.
FinerMarksWithinThresholds ==
  marks # None =>
    \A k \in 1..Len(Marks) :
      LET step == Marks[k].step_size
      IN /\ step <= month_step_size => Window.whole_days <= 3 * 365
         /\ (step >= day_step_size /\ step <= 12 * day_step_size) => Window.whole_days <= 90
         /\ (step >= hour_step_size /\ step < day_step_size) => Window.whole_days <= 2
         /\ step = minute_step_size => Window.whole_hours <= 2
         /\ FiveCalendarYears => step > 12 * day_step_size

\* A range of 2 hours 59 minutes 59 seconds (2 whole hours) got minute marks.
FinerMarksWithinThresholdsWitness ==
  /\ marks # None
  /\ Window.whole_hours = 2
  /\ duration_between(Window.start, Window.end) = <<0, 10799>>
  /\ \E k \in 1..Len(Marks) : Marks[k].step_size = minute_step_size

\* The positions of the marks of spacing one day x_grid returned.
DayMarks == {Marks[k].value : k \in {j \in 1..Len(Marks) : Marks[j].step_size = day_step_size}}

\* The midnights of the visible range x_grid worked on.
Midnights ==
  {<<n, 0>> : n \in {m \in Window.t0[1]..Window.t1[1] :
                       ~Before(<<m, 0>>, Window.t0) /\ Before(<<m, 0>>, Window.t1)}}

\* C19: x_grid returns for every visible range, inverted and out-of-range
\* ones included, without a panic; when it marks the days (a duration of 3 to
\* 90 whole days), the days that exist in the range are all marked, those
\* after a day the month does not have included, and nothing else is.
ReturnsAndSkipsMissingDays ==
  marks # None =>
    /\ ~marks[1].panic
    /\ (Window.whole_days > 2 /\ Window.whole_days <= 90) => DayMarks = Midnights

\* The marks of 30 April and 1 May follow each other: the loop over the days
\* of April went on to day 31, which does not exist.
ReturnsAndSkipsMissingDaysWitness ==
  /\ marks # None
  /\ ~marks[1].panic
  /\ \E k \in 1..(Len(Marks) - 1) :
       /\ Marks[k] = [value |-> <<days_from_civil(2021, 4, 30), 0>>, step_size |-> day_step_size]
       /\ Marks[k + 1] = [value |-> <<days_from_civil(2021, 5, 1), 0>>, step_size |-> day_step_size]

\* The positions of the marks of spacing step_size x_grid returned.
MarksOf(step_size) ==
  {Marks[k].value : k \in {j \in 1..Len(Marks) : Marks[j].step_size = step_size}}

InWindow(t) == ~Before(t, Window.t0) /\ Before(t, Window.t1)

\* The whole minutes of the visible range x_grid worked on.
WholeMinutes ==
  {t \in {<<d, 60 * m>> : d \in Window.t0[1]..Window.t1[1], m \in 0..1439} : InWindow(t)}

\* The first instants (1 January 00:00:00) of the years of the visible range.
NewYears(years) ==
  {t \in {<<days_from_civil(y, 1, 1), 0>> : y \in years} : InWindow(t)}

\* C25: when the minute marks are active (a duration of at most 2 whole
\* hours), the minute loop runs from the minute of the start in the first
\* hour to the minute of the end in the last hour, so every whole minute of
\* [t0, t1) has a minute mark.
EveryWholeMinuteMarked ==
  (marks # None /\ Window.whole_hours <= 2) => MarksOf(minute_step_size) = WholeMinutes

\* C26: for a duration of at most 3 * 365 whole days, every 1 January 00:00
\* UTC of [t0, t1) has a mark of spacing one year.
YearMarkedBelowThreshold ==
  (marks # None /\ Window.whole_days <= 365 * 3) =>
    NewYears(Window.start.year..Window.end.year) \subseteq MarksOf(year_step_size)

\* C27 as claimed: the spacing of every mark is that of one unit of a level:
\* one minute, one hour, one day, one month (30 days), one year (365 days)
\* or one decade.
OneUnitSpacingOnly ==
  marks # None =>
    \A k \in 1..Len(Marks) :
      Marks[k].step_size \in {minute_step_size, hour_step_size, day_step_size,
                              month_step_size, year_step_size, year_step_size * 10}

\* C27, amended: the spacing of every mark is one minute, 1, 3 or 6 hours,
\* 1, 3, 6 or 12 days, 30 days, 365 days or 3650 days; a mark of n hours
\* lies on an hour of the day divisible by n and a mark of n days on a day
\* of the month divisible by n.
SpacingIsUnitOrMultiple ==
  marks # None =>
    \A k \in 1..Len(Marks) :
      LET step == Marks[k].step_size
          date == from_unix_timestamp(Marks[k].value)[1]
      IN \/ step \in {minute_step_size, month_step_size, year_step_size, year_step_size * 10}
         \/ \E n \in {1, 3, 6} : step = n * hour_step_size /\ date.hour % n = 0
         \/ \E n \in {1, 3, 6, 12} : step = n * day_step_size /\ date.day % n = 0

\* A range of 26 hours: the hour 18:00 carries three marks, of 6 hours, of 3
\* hours and of 1 hour, and 21:00 the last two.
SpacingIsUnitOrMultipleWitness ==
  /\ marks # None
  /\ Window.whole_hours = 26
  /\ \E d \in Window.t0[1]..Window.t1[1] :
       /\ <<d, 18 * 3600>> \in MarksOf(6 * hour_step_size)
       /\ <<d, 18 * 3600>> \in MarksOf(3 * hour_step_size)
       /\ <<d, 18 * 3600>> \in MarksOf(hour_step_size)
       /\ <<d, 21 * 3600>> \in MarksOf(3 * hour_step_size)
       /\ <<d, 21 * 3600>> \notin MarksOf(6 * hour_step_size)

\* C28: for a duration of more than 20 * 365 whole days, x_grid returns one
\* mark of decade spacing at 1 January 00:00 UTC of every year divisible by
\* 10 that lies in [t0, t1), and nothing else.
DecadeMarksOnly ==
  (marks # None /\ Window.whole_days > 365 * 20) =>
    /\ \A k \in 1..Len(Marks) : Marks[k].step_size = year_step_size * 10
    /\ MarksOf(year_step_size * 10) =
         NewYears({y \in Window.start.year..Window.end.year : y % 10 = 0})
    /\ Len(Marks) = Cardinality(MarksOf(year_step_size * 10))

\* A range of 7301 days from 1999-12-31 23:00: the marks are those of
\* 2000-01-01 and 2010-01-01.
DecadeMarksOnlyWitness ==
  /\ marks # None
  /\ Window.whole_days = 365 * 20 + 1
  /\ Marks = <<[value |-> <<days_from_civil(2000, 1, 1), 0>>, step_size |-> year_step_size * 10],
               [value |-> <<days_from_civil(2010, 1, 1), 0>>, step_size |-> year_step_size * 10]>>

(***************************************************************************)
(* The reports, their merge and the dashboard (src/src/report.rs,          *)
(* src/src/dashboard.rs).  meteo::Report belongs to the meteo crate and    *)
(* the refresh of the report store to the binary of the application;       *)
(* neither source is at hand, both follow section 4.3 of the               *)
(* specification.                                                          *)
(***************************************************************************)
\* The monthly periods the reports cover, and the length of a collection.
NumMonths == 3

MaxReports == 3

\* meteo::Report: the period of the report and its days, in order.  Two
\* versions of the report of a month hold different measurements.
MeteoReport(month, version) ==
  [metadata |-> [date |-> month],
   days |-> <<[date |-> 100 * month + 1, version |-> version],
              [date |-> 100 * month + 2, version |-> version]>>]

\* report::Report: version 0 of a month is held without its text, version 1
\* with it (Report::original).
Report(month, version) ==
  [original |-> IF version = 0 THEN None ELSE Some(<<month, version>>),
   report |-> MeteoReport(month, version)]

Catalogue == {Report(month, version) : month \in 1..NumMonths, version \in 0..1}

Collections == UNION {[1..n -> Catalogue] : n \in 0..MaxReports}

\* impl Clone for Report.
clone(report) == [original |-> report.original, report |-> report.report]

meteo_merge_skips_known_days(self, other) ==
  [metadata |-> self.metadata,
   days |-> self.days \o SelectSeq(other.days,
                                   LAMBDA d : \A k \in 1..Len(self.days) : self.days[k] # d)]

\* meteo::Report::merge, on a clone of self: the days of other are appended,
\* the metadata stay those of self.
meteo_merge(self, other) ==
  [metadata |-> self.metadata, days |-> self.days \o other.days]

merge_keeps_original(self, other) ==
  [original |-> self.original, report |-> meteo_merge(self.report, other.report)]

\* Report::merge.
merge(self, other) ==
  [original |-> None, report |-> meteo_merge(self.report, other.report)]

RECURSIVE fold_accumulator_on_right(_, _)
fold_accumulator_on_right(left, rest) ==
  IF rest = <<>> THEN left
  ELSE fold_accumulator_on_right(merge(Head(rest), left), Tail(rest))

\* reports.fold(first_report, |left, right| left.merge(&right)).
RECURSIVE fold(_, _)
fold(left, rest) ==
  IF rest = <<>> THEN left ELSE fold(merge(left, Head(rest)), Tail(rest))

\* Dashboard::new: the maxi_report, or the panic of next().unwrap() on an
\* empty slice.
Dashboard_new(slice) ==
  IF slice = <<>>
  THEN [panic |-> TRUE, maxi_report |-> None]
  ELSE [panic |-> FALSE, maxi_report |-> Some(fold(clone(Head(slice)), Tail(slice)))]

insert_ascending(sorted, r) ==
  LET k == Cardinality({j \in 1..Len(sorted) :
                          sorted[j].report.metadata.date <= r.report.metadata.date})
  IN SubSeq(sorted, 1, k) \o <<r>> \o SubSeq(sorted, k + 1, Len(sorted))

insert_before_equal(sorted, r) ==
  LET k == Cardinality({j \in 1..Len(sorted) :
                          sorted[j].report.metadata.date > r.report.metadata.date})
  IN SubSeq(sorted, 1, k) \o <<r>> \o SubSeq(sorted, k + 1, Len(sorted))

\* The stable sort of the store, descending by metadata.date: report r goes
\* behind the sorted reports whose date is not before its own.
insert(sorted, r) ==
  LET k == Cardinality({j \in 1..Len(sorted) :
                          sorted[j].report.metadata.date >= r.report.metadata.date})
  IN SubSeq(sorted, 1, k) \o <<r>> \o SubSeq(sorted, k + 1, Len(sorted))

RECURSIVE sort_by_date_descending(_)
sort_by_date_descending(rs) ==
  IF rs = <<>> THEN <<>>
  ELSE insert(sort_by_date_descending(SubSeq(rs, 1, Len(rs) - 1)), rs[Len(rs)])

RECURSIVE dedup_keeps_last(_)
dedup_keeps_last(rs) ==
  IF Len(rs) <= 1 THEN rs
  ELSE IF rs[1].report.metadata.date = rs[2].report.metadata.date
       THEN dedup_keeps_last(Tail(rs))
       ELSE <<rs[1]>> \o dedup_keeps_last(Tail(rs))

\* The dedup of the store: of each run of reports of equal metadata.date the
\* first is kept.
RECURSIVE dedup_by_date(_)
dedup_by_date(rs) ==
  IF Len(rs) <= 1 THEN rs
  ELSE IF rs[Len(rs)].report.metadata.date = rs[Len(rs) - 1].report.metadata.date
       THEN dedup_by_date(SubSeq(rs, 1, Len(rs) - 1))
       ELSE Append(dedup_by_date(SubSeq(rs, 1, Len(rs) - 1)), rs[Len(rs)])

\* The refresh of the report store.
refresh(rs) == dedup_by_date(sort_by_date_descending(rs))

\* Some reports are at hand; the store is not refreshed and no dashboard is
\* built yet.  The coordinator and the plot are as at the start.
AggInit ==
  /\ reports = [i \in Sources |-> SingleReport(i)]
  /\ channels = [i \in Sources |-> <<>>]
  /\ units = [i \in Sources |-> <<>>]
  /\ surfaced = [i \in Sources |-> 0]
  /\ alive = TRUE
  /\ bounds = None
  /\ marks = None
  /\ labels = None
  /\ collection \in Collections
  /\ stored = None
  /\ dashboard = None
  /\ tokens = <<>>
  /\ parsed = None
  /\ fetched = None
  /\ copy = None

\* The store is refreshed from the collection.
Refresh ==
  /\ stored = None
  /\ dashboard = None
  /\ stored' = Some(refresh(collection))
  /\ UNCHANGED <<coordinator, alive, plot, language, callers, collection, dashboard>>

\* The reports the dashboard is built from: those of the store once it is
\* refreshed, the collection as it is before.
Slice == IF stored = None THEN collection ELSE stored[1]

NewDashboard ==
  /\ dashboard = None
  /\ dashboard' = Some(Dashboard_new(Slice))
  /\ UNCHANGED <<coordinator, alive, plot, language, callers, collection, stored>>

AggNext ==
  \/ Refresh
  \/ NewDashboard

AggSpec == AggInit /\ [][AggNext]_vars

\* The aggregate report of the dashboard.
Maxi == dashboard[1].maxi_report[1]

\* The dashboard is built, without a panic, from exactly the reports a, b.
MergedPair == dashboard # None /\ ~dashboard[1].panic /\ Len(Slice) = 2

\* C20: merge(a, b).days has the length len(a.days) + len(b.days) and is the
\* days of a in their order followed by the days of b in their order; no
\* duplicate day is removed.
MergeConcatenatesDays ==
  MergedPair =>
    /\ Len(Maxi.report.days) = Len(Slice[1].report.days) + Len(Slice[2].report.days)
    /\ Maxi.report.days = Slice[1].report.days \o Slice[2].report.days

\* a and b hold the same days, and the merged report holds each of them twice.
MergeConcatenatesDaysWitness ==
  /\ MergedPair
  /\ Slice[1].report.days = Slice[2].report.days
  /\ Len(Maxi.report.days) = 4
  /\ Maxi.report.days[1] = Maxi.report.days[3]

\* C21: merge(a, b) has the metadata of a, the left operand, and no original
\* text, whether or not a or b had one.
MergeLeftMetadataNoOriginal ==
  MergedPair =>
    /\ Maxi.report.metadata = Slice[1].report.metadata
    /\ Maxi.original = None

\* a and b of different periods both carry their text.
MergeLeftMetadataNoOriginalWitness ==
  /\ MergedPair
  /\ Slice[1].original # None
  /\ Slice[2].original # None
  /\ Slice[1].report.metadata # Slice[2].report.metadata
  /\ Maxi.report.metadata = Slice[1].report.metadata
  /\ Maxi.original = None

\* C22: the aggregate report Dashboard::new builds from any non-empty
\* collection of reports, a single report that carries its text included, has
\* no original text.
AggregateHasNoOriginal ==
  (dashboard # None /\ ~dashboard[1].panic) => Maxi.original = None

\* The metadata.date of the k-th report of a sequence of reports.
date_of(rs, k) == rs[k].report.metadata.date

Dates(rs) == {date_of(rs, k) : k \in 1..Len(rs)}

DistinctDates(rs) == \A j, k \in 1..Len(rs) : j # k => date_of(rs, j) # date_of(rs, k)

Holds(rs, r) == \E k \in 1..Len(rs) : rs[k] = r

\* C23: after a refresh the store holds exactly one report of each distinct
\* metadata.date of the input, no two stored reports have the same date and
\* the stored order is strictly descending by date; when the dates of the
\* input are pairwise distinct the store is a permutation of the input.
StoreOnePerDateDescending ==
  stored # None =>
    /\ Dates(stored[1]) = Dates(collection)
    /\ \A k \in 1..Len(stored[1]) : Holds(collection, stored[1][k])
    /\ DistinctDates(stored[1])
    /\ \A j, k \in 1..Len(stored[1]) :
         j < k => date_of(stored[1], j) > date_of(stored[1], k)
    /\ DistinctDates(collection) =>
         /\ Len(stored[1]) = Len(collection)
         /\ \A k \in 1..Len(collection) : Holds(stored[1], collection[k])

\* Three reports of two dates, the older ones first, leave two stored
\* reports, the more recent first.
StoreOnePerDateDescendingWitness ==
  /\ stored # None
  /\ Len(collection) = 3
  /\ date_of(collection, 1) = date_of(collection, 2)
  /\ date_of(collection, 2) < date_of(collection, 3)
  /\ Len(stored[1]) = 2
  /\ date_of(stored[1], 1) = date_of(collection, 3)

\* The place of the first report of the collection that has the date.
first_of(date) ==
  CHOOSE k \in 1..Len(collection) :
    /\ date_of(collection, k) = date
    /\ \A j \in 1..(k - 1) : date_of(collection, j) # date

\* C24: of several input reports of the same metadata.date the store keeps
\* the one that comes first in the enumeration order of the input.
StoreKeepsFirstOfDate ==
  stored # None =>
    \A k \in 1..Len(stored[1]) :
      stored[1][k] = collection[first_of(date_of(stored[1], k))]

\* Three different reports of one date: the first is the one stored.
StoreKeepsFirstOfDateWitness ==
  /\ stored # None
  /\ Len(collection) = 3
  /\ Dates(collection) = {2}
  /\ collection[1] # collection[2]
  /\ collection[3] = collection[2]
  /\ stored[1] = <<collection[1]>>

\* The dates of the days of a report increase strictly.
IncreasingDays(report) ==
  \A j, k \in 1..Len(report.days) :
    j < k => report.days[j].date < report.days[k].date

\* C29: the dates of the days of a report are unique and strictly increasing,
\* in the aggregate report of Dashboard::new too when the reports of the
\* collection are so and cover pairwise disjoint periods, in whatever order
\* the collection lists them, the most-recent-first order of the store
\* included.
AggregateDaysIncreasing ==
  (/\ dashboard # None
   /\ ~dashboard[1].panic
   /\ DistinctDates(Slice)
   /\ \A k \in 1..Len(Slice) : IncreasingDays(Slice[k].report)) =>
    IncreasingDays(Maxi.report)

\* The two reports i < j are the only ones of their date in the collection,
\* and they differ.
OnlyTwoOfDate(i, j) ==
  /\ i < j
  /\ collection[i] # collection[j]
  /\ \A k \in 1..Len(collection) :
       date_of(collection, k) = date_of(collection, i) <=> k \in {i, j}

\* C30 as stated: of two source reports of the same metadata.date present at
\* a refresh, the later one in the enumeration survives the dedup.
LaterReportSurvives ==
  stored # None =>
    \A i, j \in 1..Len(collection) :
      OnlyTwoOfDate(i, j) => Holds(stored[1], collection[j])

\* C30: of two source reports of the same metadata.date present at a
\* refresh, the earlier one in the enumeration survives the dedup and the
\* later one is dropped.
EarlierReportSurvives ==
  stored # None =>
    \A i, j \in 1..Len(collection) :
      OnlyTwoOfDate(i, j) =>
        /\ Holds(stored[1], collection[i])
        /\ ~Holds(stored[1], collection[j])

\* The report of month 1 with its text, then one of month 3, then the report
\* of month 1 without text: the store holds month 3 and the first report.
EarlierReportSurvivesWitness ==
  /\ stored # None
  /\ Len(collection) = 3
  /\ OnlyTwoOfDate(1, 3)
  /\ date_of(collection, 2) > date_of(collection, 1)
  /\ stored[1] = <<collection[2], collection[1]>>

\* The days of the reports of a sequence, one report after the other.
RECURSIVE days_in_order(_)
days_in_order(rs) ==
  IF rs = <<>> THEN <<>> ELSE Head(rs).report.days \o days_in_order(Tail(rs))

\* C31: Dashboard::new on a non-empty collection r1..rn yields a report whose
\* days are the days of r1, then of r2, ..., then of rn, in the order of the
\* collection, and whose metadata are those of r1.
DashboardFoldsInOrder ==
  (dashboard # None /\ ~dashboard[1].panic) =>
    /\ Maxi.report.days = days_in_order(Slice)
    /\ Maxi.report.metadata = Slice[1].report.metadata

\* Three reports of three periods, neither the oldest nor the most recent
\* first.
DashboardFoldsInOrderWitness ==
  /\ dashboard # None
  /\ ~dashboard[1].panic
  /\ Len(Slice) = 3
  /\ DistinctDates(Slice)
  /\ date_of(Slice, 1) = 2
  /\ Len(Maxi.report.days) = 6
  /\ Maxi.report.metadata.date = 2

\* The format time_formatter is to choose for the step size of a mark of
\* x_grid: the year for a year and a decade, year and month for a month, the
\* date for 1 to 12 days, the date with hour and minute below a day.
FormatOfLevel(step_size) ==
  IF step_size >= year_step_size THEN <<"year">>
  ELSE IF step_size = month_step_size THEN <<"year", "month">>
  ELSE IF step_size >= day_step_size THEN <<"year", "month", "day">>
  ELSE <<"year", "month", "day", "hour", "minute">>

\* The step sizes of the marks with the formats their labels got.
Chosen == {<<Marks[k].step_size, labels[1][k].format>> : k \in 1..Len(Marks)}

\* The step sizes x_grid gives its marks.
StepSizes ==
  {minute_step_size, hour_step_size, hour_step_size * 3, hour_step_size * 6,
   day_step_size, day_step_size * 3, day_step_size * 6, day_step_size * 12,
   day_step_size * 24, month_step_size, year_step_size, year_step_size * 10}

MarksOrdered ==
  marks # None =>
    \A k \in 1..(Len(Marks) - 1) : ~Before(Marks[k + 1].value, Marks[k].value)

\* Marks of six, three and one hour on one position, and a later mark after
\* them.
MarksOrderedWitness ==
  /\ marks # None
  /\ \E k \in 1..(Len(Marks) - 3) :
       /\ Marks[k].step_size = hour_step_size * 6
       /\ Marks[k + 1].value = Marks[k].value
       /\ Marks[k + 2].value = Marks[k].value
       /\ Before(Marks[k + 2].value, Marks[k + 3].value)

\* C34: x_grid clamps each bound of the visible range to the representable
\* instants before it makes the marks: a bound b becomes
\* min(max(b, MIN), MAX), a start above MAX becomes MAX and an end below MIN
\* becomes MIN, and no mark lies outside the requested range.
BoundsClamped ==
  marks # None =>
    LET clamped(b) == IF Before(b, MinTimestamp) THEN MinTimestamp
                      ELSE IF Before(MaxTimestamp, b) THEN MaxTimestamp ELSE b
    IN /\ Window.t0 = clamped(bounds[1][1])
       /\ Window.t1 = clamped(bounds[1][2])
       /\ \A k \in 1..Len(Marks) :
            /\ ~Before(Marks[k].value, bounds[1][1])
            /\ Before(Marks[k].value, bounds[1][2])

(***************************************************************************)
(* The expression parser (src/lang/src/parser.rs) over the tokens of the   *)
(* lexer (src/lang/src/lexer.rs).                                          *)
(***************************************************************************)
\* The length of a source, in tokens.
MaxTokens == 5

\* What Lexer::next yields: a token (the operators and the other
\* punctuation are one kind here, the parser treats them alike) or a
\* LexingError.
Kinds == {"Ident", "Number", "LeftParens", "RightParens", "Plus", "LexingError"}

Sources_of_tokens == UNION {[1..n -> Kinds] : n \in 0..MaxTokens}

\* Lexer::next after pos tokens: None at the end of the source.
lexer_next(ts, pos) == IF pos < Len(ts) THEN Some(ts[pos + 1]) ELSE None

\* Lexer::span after pos tokens were asked for: the place of the last
\* token, the end of the source once next returned None.
span(ts, pos) == IF pos <= Len(ts) THEN pos ELSE Len(ts) + 1

\* Result<Expression>, with the number of tokens the lexer was asked for.
ParseOk(expr, pos) == [ok |-> TRUE, expr |-> Some(expr), error |-> None, pos |-> pos]

ParseErr(error, pos) == [ok |-> FALSE, expr |-> None, error |-> Some(error), pos |-> pos]

primary_error(found) == [kind |-> "ExpectedPrimary", found |-> found]

Group_on_any_token(ts, left, inner) ==
  LET next == lexer_next(ts, inner.pos)
      right == span(ts, inner.pos + 1)
      error == [kind |-> "MissingParens", left |-> left, right |-> right]
  IN IF next = None THEN ParseErr(error, inner.pos + 1)
     ELSE ParseOk([kind |-> "Group", opening_paren |-> left,
                   expression |-> inner.expr[1], closing_paren |-> right],
                  inner.pos + 1)

\* The arm Token::LeftParens of parse_primary after parse_expression()?
\* returned the expression inner: the next token has to be RightParens.
Group(ts, left, inner) ==
  LET next == lexer_next(ts, inner.pos)
      right == span(ts, inner.pos + 1)
      error == [kind |-> "MissingParens", left |-> left, right |-> right]
  IN IF next = None THEN ParseErr(error, inner.pos + 1)
     ELSE IF next[1] = "LexingError" THEN ParseErr(error, inner.pos + 1)
     ELSE IF next[1] # "RightParens" THEN ParseErr(error, inner.pos + 1)
     ELSE ParseOk([kind |-> "Group", opening_paren |-> left,
                   expression |-> inner.expr[1], closing_paren |-> right],
                  inner.pos + 1)

RECURSIVE parse_expression(_, _)

\* Parser::parse_primary, the lexer having been asked for pos tokens.
parse_primary(ts, pos) ==
  LET next == lexer_next(ts, pos)
  IN IF next = None THEN ParseErr(primary_error("EoF"), pos + 1)
     ELSE IF next[1] = "LexingError" THEN ParseErr(primary_error("LexingError"), pos + 1)
     ELSE IF next[1] = "Ident"
     THEN ParseOk([kind |-> "Primary", literal |-> "String", span |-> span(ts, pos + 1)], pos + 1)
     ELSE IF next[1] = "Number"
     THEN ParseOk([kind |-> "Primary", literal |-> "Number", span |-> span(ts, pos + 1)], pos + 1)
     ELSE IF next[1] = "LeftParens"
     THEN Bind(parse_expression(ts, pos + 1), LAMBDA inner :
            IF ~inner.ok THEN inner ELSE Group(ts, span(ts, pos + 1), inner))
     ELSE ParseErr(primary_error(next[1]), pos + 1)

\* Parser::parse_expression.
parse_expression(ts, pos) == parse_primary(ts, pos)

\* A parser is made for some source and has not parsed yet; the coordinator,
\* the plot and the store are as at the start.
ParseInit ==
  /\ reports = [i \in Sources |-> SingleReport(i)]
  /\ channels = [i \in Sources |-> <<>>]
  /\ units = [i \in Sources |-> <<>>]
  /\ surfaced = [i \in Sources |-> 0]
  /\ alive = TRUE
  /\ bounds = None
  /\ marks = None
  /\ labels = None
  /\ collection = <<>>
  /\ stored = None
  /\ dashboard = None
  /\ tokens \in Sources_of_tokens
  /\ parsed = None
  /\ fetched = None
  /\ copy = None

\* parser.parse_primary() on the new parser.
ParsePrimary ==
  /\ parsed = None
  /\ parsed' = Some(parse_primary(tokens, 0))
  /\ UNCHANGED <<coordinator, alive, plot, aggregation, tokens, callers>>

ParseNext == ParsePrimary

ParseSpec == ParseInit /\ [][ParseNext]_vars

\* The token RightParens follows the expression inner.
Closed(inner) == inner.pos < Len(tokens) /\ tokens[inner.pos + 1] = "RightParens"

\* C35: parse_primary on a source that starts with `(` returns a Group
\* exactly when the expression in the parentheses parses and the next token
\* is `)`; when that expression parses and the source ends, a lexing error
\* follows or another token follows, it returns the error MissingParens and
\* no expression.  The same holds for every `(` inside, and the parse ends.
GroupIffClosed ==
  parsed # None =>
    /\ parsed[1] = parse_primary(tokens, 0)
    /\ \A p \in 1..Len(tokens) :
         tokens[p] = "LeftParens" =>
           LET result == parse_primary(tokens, p - 1)
               inner == parse_expression(tokens, p)
           IN /\ result.ok <=> (inner.ok /\ Closed(inner))
              /\ result.ok =>
                   /\ result.expr[1].kind = "Group"
                   /\ result.expr[1].expression = inner.expr[1]
                   /\ result.expr[1].opening_paren = p
                   /\ result.expr[1].closing_paren = inner.pos + 1
              /\ (inner.ok /\ ~Closed(inner)) =>
                   /\ result.expr = None
                   /\ result.error[1].kind = "MissingParens"
                   /\ result.error[1].left = p
              /\ ~inner.ok => result = inner
              /\ result.pos > p /\ result.pos <= Len(tokens) + 1

\* `((1)` then a token that is not `)`: the inner group is returned to the
\* outer one, which reports the missing parenthesis.
GroupIffClosedWitness ==
  /\ parsed # None
  /\ Len(tokens) = 5
  /\ tokens[1] = "LeftParens"
  /\ tokens[2] = "LeftParens"
  /\ parse_primary(tokens, 1).ok
  /\ tokens[5] = "Plus"
  /\ ~parsed[1].ok
  /\ parsed[1].error[1] = [kind |-> "MissingParens", left |-> 1, right |-> 5]

\* C36: try_fetch_report called on a status that is Idle (NotDownloading),
\* Succeeded (Downloaded) or Failed returns no text, no report and no error
\* and leaves the status unchanged.
CallOnSettledStatusChangesNothing ==
  [][\A i \in Sources :
       (TryFetchReport(i) /\ ~downloading(reports[i].status)) =>
         /\ fetched' = Some(Output(None, None, None))
         /\ reports'[i].status = reports[i].status]_vars

\* C37: when a fetch unit has sent its result and ended before its source
\* is next polled, that poll surfaces the sent result (Succeeded, or Failed
\* with the error of the unit); InternalError is reported only when the unit
\* ended without having sent anything, and a sent result is never lost or
\* replaced by InternalError.
SentResultSurfaced ==
  [][\A i \in Sources :
       (downloading(reports[i].status) /\ Update) =>
         /\ PolledUnit(i).state = "finished" =>
              /\ ~PolledChannel(i).sender
              /\ Len(PolledChannel(i).queue) = 1
              /\ LET sent == Head(PolledChannel(i).queue)
                 IN /\ sent = download_report(PolledUnit(i).response[1])
                    /\ reports'[i].status = IF sent.ok THEN Downloaded ELSE Failed
                    /\ reports'[i].original = sent.original
                    /\ reports'[i].report = sent.report
                    /\ reports'[i].error = sent.error
                    /\ reports'[i].error # Some("InternalError")
                    /\ surfaced'[i] = surfaced[i] + 1
         /\ reports'[i].error = Some("InternalError") =>
              /\ PolledUnit(i).state = "panicked"
              /\ PolledChannel(i).queue = <<>>]_vars

\* The units of two sources sent and ended, one a report and one a transport
\* error, and both results are stored; the unit of a third ended without
\* sending.
SentResultSurfacedWitness ==
  \E i, j, k \in Sources :
    /\ Len(units[i]) = 1 /\ Len(units[j]) = 1 /\ Len(units[k]) = 1
    /\ units[i][1].state = "finished" /\ ~channels[i][1].sender
    /\ reports[i].status = Downloaded /\ surfaced[i] = 1
    /\ units[j][1].state = "finished" /\ ~channels[j][1].sender
    /\ reports[j].error = Some("NetworkError") /\ surfaced[j] = 1
    /\ units[k][1].state = "panicked"
    /\ reports[k].error = Some("InternalError")

\* C38: the clone of the coordinator holds, for each source, a copy that is
\* Idle when the original is Idle or InFlight and has the state of the
\* original when that is Succeeded or Failed, with the same name, locator,
\* selection, original text and report and with no error; the clone changes
\* neither the state nor the channel of the original; an update tick on the
\* clone spawns a new fetch unit for every selected source that was InFlight
\* in the original.
CloneRestartsInFlight ==
  [][/\ CloneApp =>
          /\ \A i \in Sources :
               /\ copy'[1].reports[i].status =
                    IF terminal(reports[i].status) THEN reports[i].status ELSE NotDownloading
               /\ copy'[1].reports[i].name = reports[i].name
               /\ copy'[1].reports[i].url = reports[i].url
               /\ copy'[1].reports[i].selected = reports[i].selected
               /\ copy'[1].reports[i].original = reports[i].original
               /\ copy'[1].reports[i].report = reports[i].report
               /\ copy'[1].reports[i].error = None
          /\ reports' = reports
          /\ channels' = channels
          /\ units' = units
     /\ (copy # None /\ UpdateClone) =>
          \A i \in Sources :
            (/\ reports[i].selected
             /\ downloading(reports[i].status)
             /\ copy[1].units[i] = <<>>) =>
              /\ Len(copy'[1].units[i]) = 1
              /\ copy'[1].units[i][1].state = "running"
              /\ copy'[1].units[i][1].url = reports[i].url
              /\ copy'[1].reports[i].status = Downloading(1)
              /\ copy'[1].channels[i] = <<channel>>]_vars

\* The original has a selected source InFlight, with its unit and channel,
\* and a Failed source with its error; the clone, after its tick, fetches the
\* first again with a unit and a channel of its own and holds the second
\* Failed without an error.
CloneRestartsInFlightWitness ==
  /\ copy # None
  /\ \E i, j \in Sources :
       /\ reports[i].selected /\ downloading(reports[i].status)
       /\ Len(units[i]) = 1 /\ Len(channels[i]) = 1
       /\ Len(copy[1].units[i]) = 1 /\ downloading(copy[1].reports[i].status)
       /\ reports[j].status = Failed /\ reports[j].error # None
       /\ copy[1].reports[j].status = Failed /\ copy[1].reports[j].error = None

\* The first instants of the months and the whole hours of the visible range
\* x_grid worked on.
FirstsOfMonth ==
  {t \in {<<days_from_civil(y, m, 1), 0>> :
            y \in Window.start.year..Window.end.year, m \in 1..12} : InWindow(t)}

WholeHours ==
  {t \in {<<d, 3600 * h>> : d \in Window.t0[1]..Window.t1[1], h \in 0..23} : InWindow(t)}

\* C39: when a level from decade to hour is the finest one active for the
\* duration of the window (decade above 20 * 365 whole days, year above
\* 3 * 365, month above 90, day above 2 whole days, hour above 2 whole
\* hours), every calendar boundary of that level in [t0, t1) has a mark of
\* the one-unit spacing of the level, at the first and the last year, month
\* or day of the window and across the change of a month or a year too.
FinestLevelComplete ==
  marks # None =>
    /\ Window.whole_days > 365 * 20 =>
         NewYears({y \in Window.start.year..Window.end.year : y % 10 = 0})
           \subseteq MarksOf(year_step_size * 10)
    /\ (Window.whole_days > 365 * 3 /\ Window.whole_days <= 365 * 20) =>
         NewYears(Window.start.year..Window.end.year) \subseteq MarksOf(year_step_size)
    /\ (Window.whole_days > 90 /\ Window.whole_days <= 365 * 3) =>
         FirstsOfMonth \subseteq MarksOf(month_step_size)
    /\ (Window.whole_days > 2 /\ Window.whole_days <= 90) =>
         Midnights \subseteq MarksOf(day_step_size)
    /\ (Window.whole_days <= 2 /\ Window.whole_hours > 2) =>
         WholeHours \subseteq MarksOf(hour_step_size)

\* A range of 91 days from 1999-12-31 23:00: the months of January, February
\* and March 2000 are marked, over the change of the year and the 29 days of
\* February.
FinestLevelCompleteWitness ==
  /\ marks # None
  /\ Window.whole_days = 91
  /\ Window.start.year = 1999
  /\ Window.start.day = 31
  /\ FirstsOfMonth = {<<days_from_civil(2000, m, 1), 0>> : m \in 1..3}
  /\ MarksOf(month_step_size) = FirstsOfMonth

\* The date and time of a mark, in UTC.
DateOf(mark) == date_from_chart(mark.value)[1]

\* C40: every mark x_grid returns is aligned to the calendar in UTC: a minute
\* mark falls on second 0, an hour-level mark on minute 0 second 0, a
\* day-level mark on 00:00:00, a month mark on day 1 at 00:00:00, a year and
\* a decade mark on 1 January at 00:00:00.
MarksAligned ==
  marks # None =>
    \A k \in 1..Len(Marks) :
      LET step == Marks[k].step_size
          date == DateOf(Marks[k])
      IN /\ date.second = 0
         /\ step >= hour_step_size => date.minute = 0
         /\ step >= day_step_size => date.hour = 0
         /\ step >= month_step_size => date.day = 1
         /\ step >= year_step_size => date.month = 1
         /\ unix_timestamp(date) = Marks[k].value

\* A range from 22:58:30: its first mark is the minute 22:59:00, not the
\* start of the range.
MarksAlignedWitness ==
  /\ marks # None
  /\ Window.start.second = 30
  /\ Len(Marks) > 0
  /\ Marks[1].step_size = minute_step_size
  /\ DateOf(Marks[1]).hour = 22
  /\ DateOf(Marks[1]).minute = 59
  /\ DateOf(Marks[1]).second = 0

====
